---------------------------- MODULE Spec2Model ----------------------------
(***************************************************************************)
(* A model of src/app.py: the JapaneseLLMChat session object (selected    *)
(* model, Authorization header), the chat history held by the Chatbot     *)
(* component, and the handlers registered on the UI events: set_api_key,  *)
(* set_model, chat_response (with the query_model call it makes) and the  *)
(* clear lambda.                                                          *)
(*                                                                         *)
(* Text is modelled as a sequence of characters, one TLA+ string per      *)
(* character, so that strip(), lower(), substring tests and the prompt    *)
(* f-strings are computed rather than assumed.  A character outside ASCII *)
(* is written as "uXXXX", its code point (the module text is ASCII); the  *)
(* comment above each literal gives the source text.                      *)
(*                                                                         *)
(* Not modelled: the status strings set_api_key and set_model return to   *)
(* their status text boxes, and the generation parameters of the payload  *)
(* (max_length, temperature), which are passed through unread.            *)
(***************************************************************************)
EXTENDS Integers, Sequences, FiniteSets

----------------------------------------------------------------------------
(* Text helpers: str.strip, str.lower, the `in` substring test, str(int).  *)

\* The characters str.strip() removes that the inputs of this model use.
Whitespace == {" ", "\t", "\n", "\r"}

RECURSIVE lstrip(_)
lstrip(s) ==
    IF s # <<>> /\ Head(s) \in Whitespace THEN lstrip(Tail(s)) ELSE s

RECURSIVE rstrip(_)
rstrip(s) ==
    IF s # <<>> /\ s[Len(s)] \in Whitespace
    THEN rstrip(SubSeq(s, 1, Len(s) - 1))
    ELSE s

\* str.strip()
strip(s) == rstrip(lstrip(s))

UpperLetters == <<"A", "B", "C", "D", "E", "F", "G", "H", "I", "J", "K", "L", "M", "N",
      "O", "P", "Q", "R", "S", "T", "U", "V", "W", "X", "Y", "Z">>
LowerLetters == <<"a", "b", "c", "d", "e", "f", "g", "h", "i", "j", "k", "l", "m", "n",
      "o", "p", "q", "r", "s", "t", "u", "v", "w", "x", "y", "z">>

\* the lower-case form of each upper-case letter
LowerOf ==
    [c \in {UpperLetters[i] : i \in 1..26} |->
        LowerLetters[CHOOSE i \in 1..26 : UpperLetters[i] = c]]

lower_char(c) == IF c \in DOMAIN LowerOf THEN LowerOf[c] ELSE c

\* str.lower()
lower(s) == [i \in 1..Len(s) |-> lower_char(s[i])]

\* needle in haystack
Contains(needle, haystack) ==
    \E i \in 0..(Len(haystack) - Len(needle)) :
        SubSeq(haystack, i + 1, i + Len(needle)) = needle

Digits == <<"0", "1", "2", "3", "4", "5", "6", "7", "8", "9">>

\* str(n) for n >= 0, as the f-string of line 87 formats the status code
RECURSIVE int_to_str(_)
int_to_str(n) ==
    IF n < 10 THEN <<Digits[n + 1]>>
    ELSE int_to_str(n \div 10) \o <<Digits[(n % 10) + 1]>>

----------------------------------------------------------------------------
(* The static catalog, lines 10-32 (the keys of self.models).              *)

Id_open_calm == <<"c", "y", "b", "e", "r", "a", "g", "e", "n", "t", "/", "o", "p", "e",
      "n", "-", "c", "a", "l", "m", "-", "7", "b">>
Id_rinna == <<"r", "i", "n", "n", "a", "/", "j", "a", "p", "a", "n", "e", "s", "e", "-",
      "g", "p", "t", "-", "n", "e", "o", "x", "-", "3", ".", "6", "b", "-", "i", "n",
      "s", "t", "r", "u", "c", "t", "i", "o", "n", "-", "s", "f", "t">>
Id_weblab == <<"m", "a", "t", "s", "u", "o", "-", "l", "a", "b", "/", "w", "e", "b", "l",
      "a", "b", "-", "1", "0", "b", "-", "i", "n", "s", "t", "r", "u", "c", "t", "i",
      "o", "n", "-", "s", "f", "t">>
Id_stablelm == <<"s", "t", "a", "b", "i", "l", "i", "t", "y", "a", "i", "/", "j", "a",
      "p", "a", "n", "e", "s", "e", "-", "s", "t", "a", "b", "l", "e", "l", "m", "-",
      "i", "n", "s", "t", "r", "u", "c", "t", "-", "a", "l", "p", "h", "a", "-", "7",
      "b">>
Id_swallow == <<"t", "o", "k", "y", "o", "t", "e", "c", "h", "-", "l", "l", "m", "/",
      "S", "w", "a", "l", "l", "o", "w", "-", "7", "b", "-", "i", "n", "s", "t", "r",
      "u", "c", "t", "-", "h", "f">>
Id_elyza == <<"e", "l", "y", "z", "a", "/", "E", "L", "Y", "Z", "A", "-", "j", "a", "p",
      "a", "n", "e", "s", "e", "-", "L", "l", "a", "m", "a", "-", "2", "-", "7", "b",
      "-", "i", "n", "s", "t", "r", "u", "c", "t">>
Id_dialogpt_large == <<"m", "i", "c", "r", "o", "s", "o", "f", "t", "/", "D", "i", "a",
      "l", "o", "G", "P", "T", "-", "l", "a", "r", "g", "e">>
Id_bloom == <<"b", "i", "g", "s", "c", "i", "e", "n", "c", "e", "/", "b", "l", "o", "o",
      "m", "-", "7", "b", "1">>
Id_mistral == <<"m", "i", "s", "t", "r", "a", "l", "a", "i", "/", "M", "i", "s", "t",
      "r", "a", "l", "-", "7", "B", "-", "I", "n", "s", "t", "r", "u", "c", "t", "-",
      "v", "0", ".", "2">>
Id_dialogpt_medium == <<"m", "i", "c", "r", "o", "s", "o", "f", "t", "/", "D", "i", "a",
      "l", "o", "G", "P", "T", "-", "m", "e", "d", "i", "u", "m">>
Id_zephyr == <<"H", "u", "g", "g", "i", "n", "g", "F", "a", "c", "e", "H", "4", "/", "z",
      "e", "p", "h", "y", "r", "-", "7", "b", "-", "b", "e", "t", "a">>
Id_nous == <<"N", "o", "u", "s", "R", "e", "s", "e", "a", "r", "c", "h", "/", "N", "o",
      "u", "s", "-", "H", "e", "r", "m", "e", "s", "-", "2", "-", "Y", "i", "-", "3",
      "4", "B">>
Id_solar == <<"u", "p", "s", "t", "a", "g", "e", "/", "S", "O", "L", "A", "R", "-", "1",
      "0", ".", "7", "B", "-", "I", "n", "s", "t", "r", "u", "c", "t", "-", "v", "1",
      ".", "0">>
Id_llama31 == <<"m", "e", "t", "a", "-", "l", "l", "a", "m", "a", "/", "M", "e", "t",
      "a", "-", "L", "l", "a", "m", "a", "-", "3", ".", "1", "-", "7", "0", "B", "-",
      "I", "n", "s", "t", "r", "u", "c", "t">>
Id_llama2 == <<"m", "e", "t", "a", "-", "l", "l", "a", "m", "a", "/", "L", "l", "a", "m",
      "a", "-", "2", "-", "7", "0", "b", "-", "c", "h", "a", "t", "-", "h", "f">>
Id_llama3 == <<"m", "e", "t", "a", "-", "l", "l", "a", "m", "a", "/", "M", "e", "t", "a",
      "-", "L", "l", "a", "m", "a", "-", "3", "-", "7", "0", "B", "-", "I", "n", "s",
      "t", "r", "u", "c", "t">>

\* self.models: the keys of the dict
models ==
    { Id_open_calm, Id_rinna, Id_weblab, Id_stablelm, Id_swallow, Id_elyza,
      Id_dialogpt_large, Id_bloom, Id_mistral, Id_dialogpt_medium, Id_zephyr,
      Id_nous, Id_solar, Id_llama31, Id_llama2, Id_llama3 }

\* self.api_url, line 38
api_url == <<"h", "t", "t", "p", "s", ":", "/", "/", "a", "p", "i", "-", "i", "n", "f",
      "e", "r", "e", "n", "c", "e", ".", "h", "u", "g", "g", "i", "n", "g", "f", "a",
      "c", "e", ".", "c", "o", "/", "m", "o", "d", "e", "l", "s", "/">>

----------------------------------------------------------------------------
(* The strings query_model returns, lines 57-92.                           *)

\* "❌ APIキーが設定されていません"
MissingKeyText == <<"u274c", " ", "A", "P", "I", "u30ad", "u30fc", "u304c", "u8a2d",
      "u5b9a", "u3055", "u308c", "u3066", "u3044", "u307e", "u305b", "u3093">>
\* "❌ 予期しないレスポンス形式です"
UnexpectedShapeText == <<"u274c", " ", "u4e88", "u671f", "u3057", "u306a", "u3044",
      "u30ec", "u30b9", "u30dd", "u30f3", "u30b9", "u5f62", "u5f0f", "u3067", "u3059">>
\* "⏳ モデルが読み込み中です。しばらく待ってから再試行してください。"
ModelLoadingText == <<"u23f3", " ", "u30e2", "u30c7", "u30eb", "u304c", "u8aad", "u307f",
      "u8fbc", "u307f", "u4e2d", "u3067", "u3059", "u3002", "u3057", "u3070", "u3089",
      "u304f", "u5f85", "u3063", "u3066", "u304b", "u3089", "u518d", "u8a66", "u884c",
      "u3057", "u3066", "u304f", "u3060", "u3055", "u3044", "u3002">>
\* "❌ APIキーが無効です"
InvalidKeyText == <<"u274c", " ", "A", "P", "I", "u30ad", "u30fc", "u304c", "u7121",
      "u52b9", "u3067", "u3059">>
\* f"❌ エラーが発生しました (ステータス: {response.status_code})"
StatusErrorText(status_code) ==
    <<"u274c", " ", "u30a8", "u30e9", "u30fc", "u304c", "u767a", "u751f", "u3057",
      "u307e", "u3057", "u305f", " ", "(", "u30b9", "u30c6", "u30fc", "u30bf", "u30b9",
      ":", " ">> \o int_to_str(status_code) \o <<")">>
\* "⏳ リクエストがタイムアウトしました。再試行してください。"
TimeoutText == <<"u23f3", " ", "u30ea", "u30af", "u30a8", "u30b9", "u30c8", "u304c",
      "u30bf", "u30a4", "u30e0", "u30a2", "u30a6", "u30c8", "u3057", "u307e", "u3057",
      "u305f", "u3002", "u518d", "u8a66", "u884c", "u3057", "u3066", "u304f", "u3060",
      "u3055", "u3044", "u3002">>
\* f"❌ 接続エラー: {str(e)}"
ConnectionErrorText(cause) == <<"u274c", " ", "u63a5", "u7d9a", "u30a8", "u30e9",
      "u30fc", ":", " ">> \o cause

----------------------------------------------------------------------------
(* chat_response, lines 100-137: the context window and the prompt.        *)

\* Mutant of LastThree: history[:3], the first three turns.
FirstThree(history) ==
    SubSeq(history, 1, IF Len(history) > 3 THEN 3 ELSE Len(history))

\* history[-3:]: the slice starts at max(len - 3, 0)
LastThree(history) ==
    SubSeq(history, (IF Len(history) > 3 THEN Len(history) - 3 ELSE 0) + 1,
           Len(history))

\* f"ユーザー: {user_msg}\nアシスタント: {bot_msg}\n", line 103
TurnText(user_msg, bot_msg) ==
    <<"u30e6", "u30fc", "u30b6", "u30fc", ":", " ">> \o user_msg \o <<"\n", "u30a2", "u30b7", "u30b9", "u30bf", "u30f3",
      "u30c8", ":", " ">> \o bot_msg \o <<"\n">>

\* the loop of lines 101-103 over a list of turns
RECURSIVE ContextOf(_)
ContextOf(turns) ==
    IF turns = <<>> THEN <<>>
    ELSE TurnText(Head(turns)[1], Head(turns)[2]) \o ContextOf(Tail(turns))

\* conversation_context after the loop
BuildContext(history) == ContextOf(LastThree(history))

\* line 108, and again line 134
\* "以下は、タスクを説明する指示と、文脈のある入力の組み合わせです。要求を適切に満たす
\*  応答を書いてください。\n\n### 指示:\n日本語で自然な会話を行ってください。\n\n### 入力:\n
\*  {conversation_context}ユーザー: {message}\n\n### 応答:\n"
WeblabPrompt(conversation_context, message) ==
    <<"u4ee5", "u4e0b", "u306f", "u3001", "u30bf", "u30b9", "u30af", "u3092", "u8aac",
      "u660e", "u3059", "u308b", "u6307", "u793a", "u3068", "u3001", "u6587", "u8108",
      "u306e", "u3042", "u308b", "u5165", "u529b", "u306e", "u7d44", "u307f", "u5408",
      "u308f", "u305b", "u3067", "u3059", "u3002", "u8981", "u6c42", "u3092", "u9069",
      "u5207", "u306b", "u6e80", "u305f", "u3059", "u5fdc", "u7b54", "u3092", "u66f8",
      "u3044", "u3066", "u304f", "u3060", "u3055", "u3044", "u3002", "\n", "\n", "#",
      "#", "#", " ", "u6307", "u793a", ":", "\n", "u65e5", "u672c", "u8a9e", "u3067",
      "u81ea", "u7136", "u306a", "u4f1a", "u8a71", "u3092", "u884c", "u3063", "u3066",
      "u304f", "u3060", "u3055", "u3044", "u3002", "\n", "\n", "#", "#", "#", " ",
      "u5165", "u529b", ":", "\n">>
    \o conversation_context \o <<"u30e6", "u30fc", "u30b6", "u30fc", ":", " ">> \o message \o <<"\n", "\n", "#", "#", "#", " ",
      "u5fdc", "u7b54", ":", "\n">>

\* line 111, and again line 137
\* "{conversation_context}ユーザー: {message}\nアシスタント:"
DialoguePrompt(conversation_context, message) ==
    conversation_context \o <<"u30e6", "u30fc", "u30b6", "u30fc", ":", " ">> \o message \o <<"\n", "u30a2", "u30b7", "u30b9",
      "u30bf", "u30f3", "u30c8", ":">>

\* line 114
\* "以下は、タスクを説明する指示です。要求を適切に満たす応答を書きなさい。\n\n### 指示:\n
\*  {conversation_context}ユーザー: {message}\n\n### 応答:"
ElyzaPrompt(conversation_context, message) ==
    <<"u4ee5", "u4e0b", "u306f", "u3001", "u30bf", "u30b9", "u30af", "u3092", "u8aac",
      "u660e", "u3059", "u308b", "u6307", "u793a", "u3067", "u3059", "u3002", "u8981",
      "u6c42", "u3092", "u9069", "u5207", "u306b", "u6e80", "u305f", "u3059", "u5fdc",
      "u7b54", "u3092", "u66f8", "u304d", "u306a", "u3055", "u3044", "u3002", "\n", "\n",
      "#", "#", "#", " ", "u6307", "u793a", ":", "\n">>
    \o conversation_context \o <<"u30e6", "u30fc", "u30b6", "u30fc", ":", " ">> \o message \o <<"\n", "\n", "#", "#", "#", " ",
      "u5fdc", "u7b54", ":">>

\* line 119
Llama3Prompt(conversation_context, message) ==
    <<"<", "|", "b", "e", "g", "i", "n", "_", "o", "f", "_", "t", "e", "x", "t", "|",
      ">", "<", "|", "s", "t", "a", "r", "t", "_", "h", "e", "a", "d", "e", "r", "_",
      "i", "d", "|", ">", "u", "s", "e", "r", "<", "|", "e", "n", "d", "_", "h", "e",
      "a", "d", "e", "r", "_", "i", "d", "|", ">", "\n", "\n">>
    \o conversation_context \o <<"u30e6", "u30fc", "u30b6", "u30fc", ":", " ">> \o message
    \o <<"<", "|", "e", "o", "t", "_", "i", "d", "|", ">", "<", "|", "s", "t", "a", "r",
      "t", "_", "h", "e", "a", "d", "e", "r", "_", "i", "d", "|", ">", "a", "s", "s",
      "i", "s", "t", "a", "n", "t", "<", "|", "e", "n", "d", "_", "h", "e", "a", "d",
      "e", "r", "_", "i", "d", "|", ">", "\n", "\n">>

\* Mutant of InstPrompt: the opening tag without its trailing space.
InstPromptUnspaced(conversation_context, message) ==
    <<"<", "s", ">", "[", "I", "N", "S", "T", "]">> \o conversation_context \o <<"u30e6", "u30fc", "u30b6", "u30fc", ":",
      " ">> \o message
    \o <<" ", "[", "/", "I", "N", "S", "T", "]">>

\* line 122, and again line 125
InstPrompt(conversation_context, message) ==
    <<"<", "s", ">", "[", "I", "N", "S", "T", "]", " ">> \o conversation_context \o <<"u30e6", "u30fc", "u30b6", "u30fc", ":",
      " ">> \o message
    \o <<" ", "[", "/", "I", "N", "S", "T", "]">>

\* line 128
NousPrompt(conversation_context, message) ==
    <<"#", "#", "#", " ", "I", "n", "s", "t", "r", "u", "c", "t", "i", "o", "n", ":",
      "\n">> \o conversation_context \o <<"u30e6", "u30fc", "u30b6",
      "u30fc", ":", " ">> \o message
    \o <<"\n", "\n", "#", "#", "#", " ", "R", "e", "s", "p", "o", "n", "s", "e", ":">>

\* line 131
SolarPrompt(conversation_context, message) ==
    <<"#", "#", "#", " ", "U", "s", "e", "r", ":", "\n">> \o conversation_context \o <<"u30e6", "u30fc", "u30b6", "u30fc", ":",
      " ">> \o message
    \o <<"\n", "\n", "#", "#", "#", " ", "A", "s", "s", "i", "s", "t", "a", "n", "t",
      ":">>

\* "x" in self.current_model.lower()
Has(word, current_model) == Contains(word, lower(current_model))

\* The conditions of the if / elif chain, each on one value of
\* self.current_model.
Cond106(m) == Has(<<"w", "e", "b", "l", "a", "b">>, m) \/ Has(<<"m", "a", "t", "s", "u", "o", "-", "l", "a",
      "b">>, m)
Cond109(m) == Has(<<"r", "i", "n", "n", "a">>, m) /\ Has(<<"i", "n", "s", "t", "r", "u", "c", "t", "i",
      "o", "n">>, m)
Cond112(m) == Has(<<"e", "l", "y", "z", "a">>, m) \/ Has(<<"s", "w", "a", "l", "l", "o", "w">>, m)
Cond115(m) == Has(<<"l", "l", "a", "m", "a">>, m) /\ (Has(<<"c", "h", "a", "t">>, m) \/ Has(<<"i", "n", "s", "t", "r",
      "u", "c", "t">>, m))
Cond117(m) == Has(<<"l", "l", "a", "m", "a", "-", "3">>, m)
Cond123(m) == Has(<<"m", "i", "s", "t", "r", "a", "l">>, m) \/ Has(<<"z", "e", "p", "h", "y", "r">>, m)
Cond126(m) == Has(<<"n", "o", "u", "s">>, m)
Cond129(m) == Has(<<"s", "o", "l", "a", "r">>, m)
Cond132(m) == Has(<<"i", "n", "s", "t", "r", "u", "c", "t">>, m)

\* Mutant of BuildPrompt: the solar test placed before the nous test.
BuildPromptSolarBeforeNous(m, conversation_context, message) ==
    IF Cond106(m) THEN WeblabPrompt(conversation_context, message)
    ELSE IF Cond109(m) THEN DialoguePrompt(conversation_context, message)
    ELSE IF Cond112(m) THEN ElyzaPrompt(conversation_context, message)
    ELSE IF Cond115(m)
         THEN IF Cond117(m) THEN Llama3Prompt(conversation_context, message)
              ELSE InstPrompt(conversation_context, message)
    ELSE IF Cond123(m) THEN InstPrompt(conversation_context, message)
    ELSE IF Cond129(m) THEN SolarPrompt(conversation_context, message)
    ELSE IF Cond126(m) THEN NousPrompt(conversation_context, message)
    ELSE IF Cond132(m) THEN WeblabPrompt(conversation_context, message)
    ELSE DialoguePrompt(conversation_context, message)

\* The if / elif chain of lines 106-137 when self.current_model holds m
\* throughout.
BuildPrompt(m, conversation_context, message) ==
    IF Cond106(m) THEN WeblabPrompt(conversation_context, message)
    ELSE IF Cond109(m) THEN DialoguePrompt(conversation_context, message)
    ELSE IF Cond112(m) THEN ElyzaPrompt(conversation_context, message)
    ELSE IF Cond115(m)
         THEN IF Cond117(m) THEN Llama3Prompt(conversation_context, message)
              ELSE InstPrompt(conversation_context, message)
    ELSE IF Cond123(m) THEN InstPrompt(conversation_context, message)
    ELSE IF Cond126(m) THEN NousPrompt(conversation_context, message)
    ELSE IF Cond129(m) THEN SolarPrompt(conversation_context, message)
    ELSE IF Cond132(m) THEN WeblabPrompt(conversation_context, message)
    ELSE DialoguePrompt(conversation_context, message)

----------------------------------------------------------------------------
(* What requests.post can do (line 73), and the classification of it by    *)
(* query_model, lines 72-92.                                               *)

\* A JSON value as response.json() returns it.  type is the Python type:
\* "list", "dict", "str", "NoneType"; "invalid" marks a body that is not JSON.
JStr(chars) == [type |-> "str", chars |-> chars, items |-> <<>>, fields |-> {}]
JNone == [type |-> "NoneType", chars |-> <<>>, items |-> <<>>, fields |-> {}]
JList(items) == [type |-> "list", chars |-> <<>>, items |-> items, fields |-> {}]
JDict(fields) == [type |-> "dict", chars |-> <<>>, items |-> <<>>, fields |-> fields]
JInvalid == [type |-> "invalid", chars |-> <<>>, items |-> <<>>, fields |-> {}]

\* d.get(key, default) on a dict
DictGet(d, key, default) ==
    IF \E f \in d.fields : f[1] = key
    THEN (CHOOSE f \in d.fields : f[1] = key)[2]
    ELSE default

\* The outcome of one requests.post call.
\*   kind = "response": an HTTP response with status_code and body;
\*   kind = "Timeout": requests.exceptions.Timeout was raised;
\*   kind = "RequestException": another RequestException, str(e) = cause.
\* json_error_caught: whether the JSONDecodeError response.json() raises on
\* an invalid body is a RequestException (requests >= 2.27) or only a
\* ValueError (older releases); the repository pins no release.
HttpResponse(status_code, body, json_error_caught) ==
    [kind |-> "response", status_code |-> status_code, body |-> body,
     cause |-> <<>>, json_error_caught |-> json_error_caught]
TimeoutRaised ==
    [kind |-> "Timeout", status_code |-> 0, body |-> JNone,
     cause |-> <<>>, json_error_caught |-> FALSE]
RequestFailed(cause) ==
    [kind |-> "RequestException", status_code |-> 0, body |-> JNone,
     cause |-> cause, json_error_caught |-> FALSE]

\* The value query_model returns, or the exception that leaves it.
Returned(text) == [raised |-> "none", text |-> text]
Raised(exception) == [raised |-> exception, text |-> <<>>]

\* str(e) of the JSONDecodeError of an invalid body
JsonErrorCause == <<"E", "x", "p", "e", "c", "t", "i", "n", "g", " ", "v", "a", "l", "u",
      "e", ":", " ", "l", "i", "n", "e", " ", "1", " ", "c", "o", "l", "u", "m", "n",
      " ", "1", " ", "(", "c", "h", "a", "r", " ", "0", ")">>

\* lines 76-81, for a 200 response
Classify200(outcome) ==
    LET result == outcome.body IN
    IF result.type = "invalid"
    THEN IF outcome.json_error_caught
         THEN Returned(ConnectionErrorText(JsonErrorCause))
         ELSE Raised("JSONDecodeError")
    ELSE IF result.type = "list" /\ Len(result.items) > 0
    THEN LET first == result.items[1] IN
         IF first.type # "dict" THEN Raised("AttributeError")
         ELSE LET generated_text == DictGet(first, "generated_text", JStr(<<>>)) IN
              IF generated_text.type # "str" THEN Raised("AttributeError")
              ELSE Returned(strip(generated_text.chars))
    ELSE Returned(UnexpectedShapeText)

\* lines 72-92: the try block on the outcome of the post
Classify(outcome) ==
    IF outcome.kind = "Timeout" THEN Returned(TimeoutText)
    ELSE IF outcome.kind = "RequestException"
    THEN Returned(ConnectionErrorText(outcome.cause))
    ELSE IF outcome.status_code = 200 THEN Classify200(outcome)
    ELSE IF outcome.status_code = 503 THEN Returned(ModelLoadingText)
    ELSE IF outcome.status_code = 401 THEN Returned(InvalidKeyText)
    ELSE Returned(StatusErrorText(outcome.status_code))

\* {"Authorization": f"Bearer {api_key}"}, line 44, as a set of (key, value)
BearerHeaders(api_key) == {<<"Authorization", <<"B", "e", "a", "r", "e", "r", " ">> \o api_key>>}

\* The request of line 73: url, headers, and the "inputs" of the payload.
Request(url, headers_, inputs) == [url |-> url, headers |-> headers_, inputs |-> inputs]

\* query_model, lines 54-92, as a function of the state it reads and of the
\* outcome of the post: what it returns or raises, and the requests issued.
query_model(current_model_, headers_, prompt_, outcome) ==
    IF headers_ = {}
    THEN [result |-> Returned(MissingKeyText), posts |-> <<>>]
    ELSE [result |-> Classify(outcome),
          posts |-> <<Request(api_url \o current_model_, headers_, prompt_)>>]

----------------------------------------------------------------------------
(* Bounds and inputs.                                                      *)

\* The longest history a send starts from under Spec.
MaxTurns == 4
\* The longest history a send starts from under SpecRemote.
MaxRemoteTurns == 1
\* The longest history a send starts from under SpecDispatch.
MaxDispatchTurns == 1
\* The longest history a send starts from under SpecThreads.
MaxThreadTurns == 1

\* Inputs of the API-token text box: empty, whitespace only, two tokens.
KeyA == <<"h", "f", "_", "a">>
KeyB == <<"h", "f", "_", "b">>
Keys == { <<>>, <<" ", "\t">>, KeyA, KeyB }

\* Inputs of the message text box: empty, whitespace only, and two messages
\* (the second with whitespace around it).
Hello == <<"h", "e", "l", "l", "o">>
PaddedMessage == <<" ", "o", "k", "\n">>
Messages == { <<>>, <<" ", "\n">>, Hello, PaddedMessage }

\* Identifiers outside the catalog, chosen to satisfy several conditions of
\* the chain at once, or none.
Id_elyza_mistral == <<"e", "l", "y", "z", "a", "/", "M", "i", "s", "t", "r", "a", "l",
      "-", "7", "b">>
Id_weblab_zephyr == <<"a", "c", "m", "e", "/", "w", "e", "b", "l", "a", "b", "-", "z",
      "e", "p", "h", "y", "r">>
Id_rinna_nous == <<"r", "i", "n", "n", "a", "/", "n", "o", "u", "s", "-", "i", "n", "s",
      "t", "r", "u", "c", "t", "i", "o", "n">>
Id_rinna_plain == <<"r", "i", "n", "n", "a", "/", "j", "a", "p", "a", "n", "e", "s", "e",
      "-", "g", "p", "t", "2">>
Id_llama3_mistral == <<"a", "c", "m", "e", "/", "L", "l", "a", "m", "a", "-", "3", "-",
      "M", "i", "s", "t", "r", "a", "l", "-", "I", "n", "s", "t", "r", "u", "c", "t">>
Id_llama_mistral_chat == <<"a", "c", "m", "e", "/", "m", "i", "s", "t", "r", "a", "l",
      "-", "l", "l", "a", "m", "a", "-", "c", "h", "a", "t">>
Id_llama_plain == <<"a", "c", "m", "e", "/", "l", "l", "a", "m", "a", "-", "7", "b">>
Id_MISTRAL == <<"a", "c", "m", "e", "/", "M", "I", "S", "T", "R", "A", "L", "-", "7",
      "B">>
Id_nous_solar == <<"a", "c", "m", "e", "/", "s", "o", "l", "a", "r", "-", "n", "o", "u",
      "s">>
Id_solar_zephyr == <<"a", "c", "m", "e", "/", "z", "e", "p", "h", "y", "r", "-", "s",
      "o", "l", "a", "r">>
Id_nous_instruct == <<"a", "c", "m", "e", "/", "n", "o", "u", "s", "-", "i", "n", "s",
      "t", "r", "u", "c", "t">>
Id_chat == <<"a", "c", "m", "e", "/", "c", "h", "a", "t">>
Id_swallow_llama3 == <<"a", "c", "m", "e", "/", "s", "w", "a", "l", "l", "o", "w", "-",
      "l", "l", "a", "m", "a", "-", "3", "-", "c", "h", "a", "t">>

OtherIds ==
    { Id_elyza_mistral, Id_weblab_zephyr, Id_rinna_nous, Id_rinna_plain,
      Id_llama3_mistral, Id_llama_mistral_chat, Id_llama_plain, Id_MISTRAL,
      Id_nous_solar, Id_solar_zephyr, Id_nous_instruct, Id_chat,
      Id_swallow_llama3 }

\* Bodies of a response.
\* [{"generated_text": " hi there "}]
TextBody == JList(<<JDict({<<"generated_text", JStr(<<" ", "h", "i", " ", "t", "h", "e",
      "r", "e", " ">>)>>})>>)
\* [{}]
NoFieldBody == JList(<<JDict({})>>)
\* [{"generated_text": null}]
NullTextBody == JList(<<JDict({<<"generated_text", JNone>>})>>)
\* ["x"]
StrItemBody == JList(<<JStr(<<"x">>)>>)
\* []
EmptyListBody == JList(<<>>)
\* {"error": "x"}
DictBody == JDict({<<"error", JStr(<<"x">>)>>})

Bodies ==
    { TextBody, NoFieldBody, NullTextBody, StrItemBody, EmptyListBody, DictBody,
      JInvalid }

\* Everything a post does in this model.
Outcomes ==
    { HttpResponse(200, b, c) : b \in Bodies, c \in BOOLEAN }
    \cup { HttpResponse(s, DictBody, TRUE) : s \in {401, 503, 500, 404} }
    \cup { TimeoutRaised, RequestFailed(<<"r", "e", "f", "u", "s", "e", "d">>) }

\* The outcomes Spec draws from: a reply, a rejected token, an exception.
SessionOutcomes ==
    { HttpResponse(200, TextBody, TRUE), HttpResponse(401, DictBody, TRUE),
      HttpResponse(200, StrItemBody, TRUE) }

\* The messages Spec sends.
SessionMessages == { <<>>, <<" ", "\n">>, Hello }

\* The identifiers Spec selects: two of the catalog, one outside it.
SessionModels == { Id_open_calm, Id_mistral, Id_elyza_mistral }

\* No post was made.
NoOutcome ==
    [kind |-> "none", status_code |-> 0, body |-> JNone,
     cause |-> <<>>, json_error_caught |-> FALSE]

----------------------------------------------------------------------------
(* State.                                                                  *)

VARIABLES
    current_model,          \* self.current_model
    headers,                \* self.headers, a set of (key, value)
    chatbot,                \* the value of the Chatbot component: the history
    \* what the last handler to return did:
    op,                     \* its name
    arg,                    \* its input: the token, the identifier, the message
    raised,                 \* the exception that left it, or "none"
    conversation_context,   \* chat_response: the context it built
    prompt,                 \* chat_response: the prompt it built
    posts,                  \* chat_response: the requests it issued
    outcome,                \* chat_response: what its post did
    calls                   \* SpecThreads: the chat_response calls under way

vars ==
    <<current_model, headers, chatbot, op, arg, raised, conversation_context,
      prompt, posts, outcome, calls>>

\* The two listeners that run chat_response: send_btn.click (lines 255-259)
\* and msg.submit (lines 261-265).
Listeners == {"send_btn.click", "msg.submit"}

\* A listener with no call under way.
IdleCall ==
    [pc |-> "idle", message |-> <<>>, history |-> <<>>,
     conversation_context |-> <<>>, prompt |-> <<>>, dispatched |-> {},
     post |-> <<>>]

\* __init__, lines 8-39, and the empty Chatbot of line 207
Init ==
    /\ current_model = Id_open_calm
    /\ headers = {}
    /\ chatbot = <<>>
    /\ op = "init"
    /\ arg = <<>>
    /\ raised = "none"
    /\ conversation_context = <<>>
    /\ prompt = <<>>
    /\ posts = <<>>
    /\ outcome = NoOutcome
    /\ calls = [l \in Listeners |-> IdleCall]

\* A handler that is not chat_response builds no prompt and posts nothing.
NoChat ==
    /\ conversation_context' = <<>>
    /\ prompt' = <<>>
    /\ posts' = <<>>
    /\ outcome' = NoOutcome

\* Mutant of KeyAccepted: `if api_key:`, without the strip.
KeyAcceptedUnstripped(api_key) == api_key # <<>>

\* api_key.strip(), line 43
KeyAccepted(api_key) == strip(api_key) # <<>>

\* set_api_key, lines 41-47
set_api_key(api_key) ==
    /\ headers' = IF KeyAccepted(api_key) THEN BearerHeaders(api_key) ELSE headers
    /\ op' = "set_api_key"
    /\ arg' = api_key
    /\ raised' = "none"
    /\ NoChat
    /\ UNCHANGED <<current_model, chatbot, calls>>

\* set_model, lines 49-52: the assignment of line 51 comes before the lookup
\* self.models[model_name] of line 52, which raises KeyError.
set_model(model_name) ==
    /\ current_model' = model_name
    /\ raised' = IF model_name \in models THEN "none" ELSE "KeyError"
    /\ op' = "set_model"
    /\ arg' = model_name
    /\ NoChat
    /\ UNCHANGED <<headers, chatbot, calls>>

\* Mutant of IsBlank: `if not message:`, without the strip.
IsBlankUnstripped(message) == message = <<>>

\* Mutant of Appended: the turn appended to the context window.
AppendedToWindow(history, message, response) ==
    Append(LastThree(history), <<message, response>>)

\* not message.strip(), line 97
IsBlank(message) == strip(message) = <<>>

\* history.append((message, response)), line 143
Appended(history, message, response) == Append(history, <<message, response>>)

\* chat_response, lines 94-145, with the call of query_model.  An exception
\* leaves the handler before line 143, and the Chatbot keeps its value.
chat_response(message, post_outcome) ==
    /\ op' = "chat_response"
    /\ arg' = message
    /\ IF IsBlank(message)
       THEN /\ chatbot' = chatbot
            /\ raised' = "none"
            /\ NoChat
       ELSE LET context == BuildContext(chatbot)
                built == BuildPrompt(current_model, context, message)
                q == query_model(current_model, headers, built, post_outcome)
            IN  /\ conversation_context' = context
                /\ prompt' = built
                /\ posts' = q.posts
                /\ outcome' = IF q.posts = <<>> THEN NoOutcome ELSE post_outcome
                /\ raised' = q.result.raised
                /\ chatbot' = IF q.result.raised = "none"
                              THEN Appended(chatbot, message, q.result.text)
                              ELSE chatbot
    /\ UNCHANGED <<current_model, headers, calls>>

\* the lambda of clear_btn.click, lines 267-270
clear ==
    /\ chatbot' = <<>>
    /\ op' = "clear"
    /\ arg' = <<>>
    /\ raised' = "none"
    /\ NoChat
    /\ UNCHANGED <<current_model, headers, calls>>

----------------------------------------------------------------------------
(* Spec: the handlers, one at a time, in any order.                        *)

Next ==
    \/ \E api_key \in Keys : set_api_key(api_key)
    \/ \E model_name \in SessionModels : set_model(model_name)
    \/ \E message \in SessionMessages, o \in SessionOutcomes :
           Len(chatbot) <= MaxTurns /\ chat_response(message, o)
    \/ clear

Spec == Init /\ [][Next]_vars

----------------------------------------------------------------------------
(* SpecRemote: sends against every outcome of the post, on short           *)
(* histories.                                                              *)

NextRemote ==
    \/ set_api_key(KeyA)
    \/ \E message \in {Hello, PaddedMessage}, o \in Outcomes :
           Len(chatbot) <= MaxRemoteTurns /\ chat_response(message, o)
    \/ clear

SpecRemote == Init /\ [][NextRemote]_vars

----------------------------------------------------------------------------
(* SpecDispatch: sends under every identifier of DispatchModels, on short  *)
(* histories.  The chain of lines 106-137 is defined on every string, so   *)
(* the identifier is drawn from the catalog and from outside it.           *)

DispatchModels == models \cup OtherIds

InitDispatch ==
    /\ current_model \in DispatchModels
    /\ headers = {}
    /\ chatbot = <<>>
    /\ op = "init"
    /\ arg = <<>>
    /\ raised = "none"
    /\ conversation_context = <<>>
    /\ prompt = <<>>
    /\ posts = <<>>
    /\ outcome = NoOutcome
    /\ calls = [l \in Listeners |-> IdleCall]

NextDispatch ==
    \/ set_api_key(KeyA)
    \/ \E message \in Messages :
           Len(chatbot) <= MaxDispatchTurns /\ chat_response(message, TimeoutRaised)
    \/ clear

SpecDispatch == InitDispatch /\ [][NextDispatch]_vars

----------------------------------------------------------------------------
(* SpecThreads: the handlers as the server runs them.  Each listener runs  *)
(* its handler in a worker thread, and the code takes no lock (the only    *)
(* shared object is chat_bot, line 148), so the steps of a chat_response   *)
(* call interleave with the other handlers and with the call of the other  *)
(* listener.  A call is cut where it reads shared state or blocks:         *)
(*   L97   lines 97-103: the arguments, the blank test, the context;       *)
(*   L106  lines 106-137: the chain, as one read of self.current_model;    *)
(*   L140  lines 140, 56-73: query_model up to the post;                   *)
(*   L73   the post returns or raises; lines 75-92 and 143-145.            *)
(* set_api_key, set_model and clear are single assignments.                *)

\* The identifiers SpecThreads selects.
ThreadModels == { Id_open_calm, Id_mistral }

\* The outcomes SpecThreads draws from.
ThreadOutcomes == { HttpResponse(200, TextBody, TRUE), HttpResponse(200, StrItemBody, TRUE) }

\* What a returning call leaves in the observation variables.
Observe(call, exception, post_outcome) ==
    /\ op' = "chat_response"
    /\ arg' = call.message
    /\ raised' = exception
    /\ conversation_context' = call.conversation_context
    /\ prompt' = call.prompt
    /\ posts' = call.post
    /\ outcome' = post_outcome

\* lines 97-103: the listener passes the Chatbot's value as history
SendEnter(l, message) ==
    /\ calls[l].pc = "idle"
    /\ IF IsBlank(message)
       THEN /\ chatbot' = chatbot
            /\ op' = "chat_response"
            /\ arg' = message
            /\ raised' = "none"
            /\ NoChat
            /\ UNCHANGED calls
       ELSE /\ calls' = [calls EXCEPT ![l] =
                           [IdleCall EXCEPT !.pc = "L106",
                                            !.message = message,
                                            !.history = chatbot,
                                            !.conversation_context =
                                                BuildContext(chatbot)]]
            /\ UNCHANGED <<chatbot, op, arg, raised, conversation_context, prompt,
                           posts, outcome>>
    /\ UNCHANGED <<current_model, headers>>

\* lines 106-137
SendDispatch(l) ==
    /\ calls[l].pc = "L106"
    /\ calls' = [calls EXCEPT ![l].pc = "L140",
                              ![l].dispatched = {current_model},
                              ![l].prompt = BuildPrompt(current_model,
                                                calls[l].conversation_context,
                                                calls[l].message)]
    /\ UNCHANGED <<current_model, headers, chatbot, op, arg, raised,
                   conversation_context, prompt, posts, outcome>>

\* lines 140 and 56-73: without a credential the call returns through lines
\* 57 and 143-145; otherwise the request leaves
SendQuery(l) ==
    LET call == calls[l]
        q == query_model(current_model, headers, call.prompt, NoOutcome)
    IN  /\ call.pc = "L140"
        /\ IF q.posts = <<>>
           THEN /\ chatbot' = Appended(call.history, call.message, q.result.text)
                /\ Observe(call, "none", NoOutcome)
                /\ calls' = [calls EXCEPT ![l] = IdleCall]
           ELSE /\ calls' = [calls EXCEPT ![l].pc = "L73", ![l].post = q.posts]
                /\ UNCHANGED <<chatbot, op, arg, raised, conversation_context,
                               prompt, posts, outcome>>
        /\ UNCHANGED <<current_model, headers>>

\* the post ends; lines 75-92 and 143-145: the returned history becomes the
\* Chatbot's value
SendReply(l, post_outcome) ==
    LET call == calls[l]
        result == Classify(post_outcome)
    IN  /\ call.pc = "L73"
        /\ chatbot' = IF result.raised = "none"
                      THEN Appended(call.history, call.message, result.text)
                      ELSE chatbot
        /\ Observe(call, result.raised, post_outcome)
        /\ calls' = [calls EXCEPT ![l] = IdleCall]
        /\ UNCHANGED <<current_model, headers>>

NextThreads ==
    \/ \E l \in Listeners, message \in SessionMessages :
           Len(chatbot) <= MaxThreadTurns /\ SendEnter(l, message)
    \/ \E l \in Listeners : SendDispatch(l)
    \/ \E l \in Listeners : SendQuery(l)
    \/ \E l \in Listeners, o \in ThreadOutcomes : SendReply(l, o)
    \/ set_api_key(KeyA)
    \/ \E model_name \in ThreadModels : set_model(model_name)
    \/ clear

SpecThreads == Init /\ [][NextThreads]_vars

----------------------------------------------------------------------------
(* Vocabulary of the properties.                                           *)

\* A text that is empty or holds only whitespace.
OnlyWhitespace(text) == \A i \in 1..Len(text) : text[i] \in Whitespace

Min(a, b) == IF a < b THEN a ELSE b

\* The serialized turns i..j of a history, in order.
RECURSIVE JoinTurns(_, _, _)
JoinTurns(history, i, j) ==
    IF i > j THEN <<>>
    ELSE TurnText(history[i][1], history[i][2]) \o JoinTurns(history, i + 1, j)

StartsWith(s, prefix) ==
    Len(prefix) <= Len(s) /\ SubSeq(s, 1, Len(prefix)) = prefix

EndsWith(s, suffix) ==
    Len(suffix) <= Len(s) /\ SubSeq(s, Len(s) - Len(suffix) + 1, Len(s)) = suffix

\* The last handler was a send of a non-blank message.
SentMessage == op = "chat_response" /\ ~OnlyWhitespace(arg)

----------------------------------------------------------------------------
(* C1: a send of an empty or whitespace-only message returns the history   *)
(* unchanged and issues no HTTP request, whatever the model and the        *)
(* credential are.                                                         *)
C1_BlankSendChangesNothing ==
    [][ (op' = "chat_response" /\ OnlyWhitespace(arg'))
            => (chatbot' = chatbot /\ posts' = <<>> /\ raised' = "none") ]_vars

\* A whitespace-only message was sent with a credential set and a history.
C1_Witness ==
    /\ op = "chat_response"
    /\ arg # <<>> /\ OnlyWhitespace(arg)
    /\ headers # {}
    /\ Len(chatbot) >= 2

(* C2: a non-blank send on a history of n turns builds its context from    *)
(* exactly the last min(n, 3) turns, in order, and leaves the first n      *)
(* turns of the stored history as they were.                               *)
C2_ContextIsLastThree ==
    [][ (op' = "chat_response" /\ ~OnlyWhitespace(arg'))
            => LET n == Len(chatbot) IN
               /\ conversation_context' = JoinTurns(chatbot, n - Min(n, 3) + 1, n)
               /\ Len(chatbot') >= n
               /\ SubSeq(chatbot', 1, n) = chatbot ]_vars

\* A message was sent on a history of four turns that differ from each other.
C2_Witness ==
    /\ SentMessage
    /\ raised = "none"
    /\ Len(chatbot) = 5
    /\ chatbot[1] # chatbot[2]
    /\ chatbot[1] # chatbot[4]
    /\ conversation_context = JoinTurns(chatbot, 2, 4)

(* C3: the history changes only by a send appending one turn at the end,   *)
(* or by clear resetting it to empty; set_api_key and set_model never      *)
(* change it; a send on the empty history clear leaves builds its prompt   *)
(* with an empty context.                                                  *)
C3_AppendOrClear ==
    [][ /\ \/ chatbot' = chatbot
           \/ /\ op' = "chat_response"
              /\ Len(chatbot') = Len(chatbot) + 1
              /\ SubSeq(chatbot', 1, Len(chatbot)) = chatbot
           \/ op' = "clear" /\ chatbot' = <<>>
        /\ op' \in {"set_api_key", "set_model"} => chatbot' = chatbot
        /\ op' = "clear" => chatbot' = <<>>
        /\ (chatbot = <<>> /\ op' = "chat_response" /\ ~OnlyWhitespace(arg'))
               => conversation_context' = <<>> ]_vars

\* A send appended a third turn behind two turns that differ.
C3_Witness ==
    /\ SentMessage
    /\ raised = "none"
    /\ Len(chatbot) = 3
    /\ chatbot[1] # chatbot[2]

(* C8: a send issues at most one request, and none while no non-blank      *)
(* credential was ever set; a request carries the credential accepted      *)
(* last; a blank credential leaves the stored one unchanged; an accepted   *)
(* credential is never lost.                                               *)
C8_CredentialAndSinglePost ==
    [][ /\ Len(posts') <= 1
        /\ headers = {} => posts' = <<>>
        /\ posts' # <<>> => posts'[1].headers = headers
        /\ (op' = "set_api_key" /\ OnlyWhitespace(arg')) => headers' = headers
        /\ (op' = "set_api_key" /\ ~OnlyWhitespace(arg'))
               => headers' = {<<"Authorization", <<"B", "e", "a", "r", "e", "r", " ">> \o arg'>>}
        /\ op' # "set_api_key" => headers' = headers
        /\ headers # {} => headers' # {} ]_vars

\* A request that carried the second token was rejected.
C8_Witness ==
    /\ op = "chat_response"
    /\ posts # <<>>
    /\ posts[1].headers = {<<"Authorization", <<"B", "e", "a", "r", "e", "r", " ", "h",
      "f", "_", "b">>>>}
    /\ outcome.status_code = 401

(* C9: the selected model identifier is always a key of the catalog.       *)
C9_ModelInCatalog == current_model \in models

----------------------------------------------------------------------------
(* Properties of the classification of the post, under SpecRemote.         *)

\* A 200 body that is a non-empty array of objects whose first element has
\* a generated-text field.
WellFormed(body) ==
    /\ body.type = "list"
    /\ Len(body.items) > 0
    /\ \A i \in 1..Len(body.items) : body.items[i].type = "dict"
    /\ \E f \in body.items[1].fields : f[1] = "generated_text"

\* The generated text of a well-formed body.
GeneratedText(body) ==
    (CHOOSE f \in body.items[1].fields : f[1] = "generated_text")[2].chars

\* The indicator of each error class of the taxonomy: a missing credential,
\* then the classes of what the post did.
Indicator(headers_, o) ==
    IF headers_ = {} THEN MissingKeyText
    ELSE IF o.kind = "Timeout" THEN TimeoutText
    ELSE IF o.kind = "RequestException" THEN ConnectionErrorText(o.cause)
    ELSE IF o.status_code = 401 THEN InvalidKeyText
    ELSE IF o.status_code = 503 THEN ModelLoadingText
    ELSE IF o.status_code # 200 THEN StatusErrorText(o.status_code)
    ELSE UnexpectedShapeText

\* The send met an error of the taxonomy.
IsError(headers_, o) ==
    \/ headers_ = {}
    \/ o.kind \in {"Timeout", "RequestException"}
    \/ o.kind = "response" /\ o.status_code # 200
    \/ o.kind = "response" /\ o.status_code = 200 /\ ~WellFormed(o.body)

(* C4: for every non-blank send and every error of the taxonomy,           *)
(* chat_response does not raise, and appends exactly one turn: the sent    *)
(* message and the indicator of the error class.                           *)
C4_ErrorsBecomeTurns ==
    [][ (op' = "chat_response" /\ ~OnlyWhitespace(arg') /\ IsError(headers, outcome'))
            => /\ raised' = "none"
               /\ chatbot' = Append(chatbot, <<arg', Indicator(headers, outcome')>>)
      ]_vars

(* C5: for a 200 response, query_model returns the trimmed generated text  *)
(* of a well-formed body, and the unexpected-response-shape indicator for  *)
(* every other body.                                                       *)
C5_Classify200 ==
    [][ (op' = "chat_response" /\ posts' # <<>> /\ outcome'.kind = "response"
            /\ outcome'.status_code = 200)
            => /\ raised' = "none"
               /\ Len(chatbot') = Len(chatbot) + 1
               /\ chatbot'[Len(chatbot')][2] =
                      IF WellFormed(outcome'.body)
                      THEN strip(GeneratedText(outcome'.body))
                      ELSE UnexpectedShapeText ]_vars

----------------------------------------------------------------------------
(* Properties of the prompt, under SpecDispatch.                           *)

InstPrefix == <<"<", "s", ">", "[", "I", "N", "S", "T", "]", " ">>
InstSuffix == <<" ", "[", "/", "I", "N", "S", "T", "]">>

\* The prompt is the context and then the message, wrapped in the
\* bracketed instruction tags.
WrappedInInst ==
    /\ StartsWith(prompt, InstPrefix)
    /\ EndsWith(prompt, InstSuffix)
    /\ Len(prompt) >= Len(InstPrefix) + Len(InstSuffix)
    /\ LET inside == SubSeq(prompt, Len(InstPrefix) + 1, Len(prompt) - Len(InstSuffix))
       IN  /\ StartsWith(inside, conversation_context)
           /\ EndsWith(inside, arg)
           /\ Len(inside) >= Len(conversation_context) + Len(arg)

(* C6, as claimed: for every model identifier that contains "mistral",     *)
(* in any case, and every non-blank message and history, the prompt begins *)
(* with "<s>[INST] " and ends with " [/INST]", the context and the message *)
(* in between.                                                             *)
C6_MistralAlwaysInst ==
    (SentMessage /\ Has(<<"m", "i", "s", "t", "r", "a", "l">>, current_model)) => WrappedInInst

\* An identifier that an earlier condition of the chain gives another
\* template: weblab or matsuo-lab, rinna with instruction, elyza or swallow,
\* llama-3 with llama and chat or instruct.
TakenEarlier(m) ==
    \/ Has(<<"w", "e", "b", "l", "a", "b">>, m) \/ Has(<<"m", "a", "t", "s", "u", "o", "-", "l", "a", "b">>, m)
    \/ Has(<<"r", "i", "n", "n", "a">>, m) /\ Has(<<"i", "n", "s", "t", "r", "u", "c", "t", "i", "o", "n">>, m)
    \/ Has(<<"e", "l", "y", "z", "a">>, m) \/ Has(<<"s", "w", "a", "l", "l", "o", "w">>, m)
    \/ Has(<<"l", "l", "a", "m", "a", "-", "3">>, m) /\ (Has(<<"c", "h", "a", "t">>, m) \/ Has(<<"i", "n", "s", "t", "r", "u",
      "c", "t">>, m))

(* C6, amended: for every model identifier that contains "mistral", in any *)
(* case, and that no earlier condition of the chain gives another          *)
(* template, and every non-blank message and history, the prompt begins    *)
(* with "<s>[INST] " and ends with " [/INST]", the context and the message *)
(* in between.                                                             *)
C6_MistralInstUnlessTakenEarlier ==
    (SentMessage /\ Has(<<"m", "i", "s", "t", "r", "a", "l">>, current_model) /\ ~TakenEarlier(current_model))
        => WrappedInInst

\* A message was sent to the catalog's Mistral model behind a turn.
C6_Witness ==
    /\ SentMessage
    /\ current_model = Id_mistral
    /\ Len(chatbot) = 2
    /\ conversation_context # <<>>
    /\ WrappedInInst

\* The predicates of the selection, in priority order, on identifier m.
Predicates(m) ==
    << Has(<<"w", "e", "b", "l", "a", "b">>, m) \/ Has(<<"m", "a", "t", "s", "u", "o", "-", "l", "a", "b">>, m),
       Has(<<"r", "i", "n", "n", "a">>, m) /\ Has(<<"i", "n", "s", "t", "r", "u", "c", "t", "i", "o", "n">>, m),
       Has(<<"e", "l", "y", "z", "a">>, m) \/ Has(<<"s", "w", "a", "l", "l", "o", "w">>, m),
       Has(<<"l", "l", "a", "m", "a">>, m) /\ (Has(<<"c", "h", "a", "t">>, m) \/ Has(<<"i", "n", "s", "t", "r", "u", "c",
      "t">>, m)),
       Has(<<"m", "i", "s", "t", "r", "a", "l">>, m) \/ Has(<<"z", "e", "p", "h", "y", "r">>, m),
       Has(<<"n", "o", "u", "s">>, m),
       Has(<<"s", "o", "l", "a", "r">>, m),
       Has(<<"i", "n", "s", "t", "r", "u", "c", "t">>, m) >>

\* The index of the first predicate that holds, or 9 when none does.
FirstMatch(m) ==
    IF \E i \in 1..8 : Predicates(m)[i]
    THEN CHOOSE i \in 1..8 :
             Predicates(m)[i] /\ \A j \in 1..(i - 1) : ~Predicates(m)[j]
    ELSE 9

\* The prompt of each predicate's template, and of the default as the 9th.
TemplateOf(i, m, context, message) ==
    CASE i = 1 -> WeblabPrompt(context, message)
      [] i = 2 -> DialoguePrompt(context, message)
      [] i = 3 -> ElyzaPrompt(context, message)
      [] i = 4 -> IF Has(<<"l", "l", "a", "m", "a", "-", "3">>, m) THEN Llama3Prompt(context, message)
                  ELSE InstPrompt(context, message)
      [] i = 5 -> InstPrompt(context, message)
      [] i = 6 -> NousPrompt(context, message)
      [] i = 7 -> SolarPrompt(context, message)
      [] i = 8 -> WeblabPrompt(context, message)
      [] i = 9 -> DialoguePrompt(context, message)

\* The number of predicates that hold of m.
Matches(m) == Cardinality({i \in 1..8 : Predicates(m)[i]})

(* C7: the template of a prompt is that of the first predicate, in the     *)
(* priority order, that holds of the lower-cased identifier, and the       *)
(* default dialogue template when none holds.                              *)
C7_FirstMatchWins ==
    SentMessage =>
        prompt = TemplateOf(FirstMatch(current_model), current_model,
                            conversation_context, arg)

\* A message was sent under an identifier that two predicates hold of and
\* whose templates differ.
C7_Witness ==
    /\ SentMessage
    /\ current_model = Id_nous_solar
    /\ Matches(current_model) = 2
    /\ prompt = NousPrompt(conversation_context, arg)
    /\ prompt # SolarPrompt(conversation_context, arg)

----------------------------------------------------------------------------
(* Properties of a send among other events, under SpecThreads.             *)

(* C10: a send is atomic with respect to the other events: the identifier  *)
(* that chose its template is the identifier of its request URL, and the   *)
(* turn it appends comes directly after the history it built its context   *)
(* from.                                                                   *)
C10_SendIsAtomic ==
    /\ \A l \in Listeners :
           calls[l].post # <<>> =>
               \A m \in calls[l].dispatched : calls[l].post[1].url = api_url \o m
    /\ (SentMessage /\ raised = "none") =>
           /\ chatbot # <<>>
           /\ chatbot[Len(chatbot)][1] = arg
           /\ LET n == Len(chatbot) - 1 IN
              conversation_context = JoinTurns(chatbot, n - Min(n, 3) + 1, n)

====
